---- MODULE Spec2Model ----
(***************************************************************************)
(* The winit input backend of smithay (src/backend/winit.rs): the handler  *)
(* slot, the two counters and dispatch_new_events, which drains the native *)
(* event loop through the poll_events closure.                             *)
(*                                                                         *)
(* The native event loop belongs to winit: which events are pending when   *)
(* dispatch_new_events polls is the environment's choice, so the closure   *)
(* action takes the event it is called with from a small alphabet.         *)
(* Variables below the line "history" record what the handler objects and  *)
(* the caller observe; the program never reads them.                       *)
(***************************************************************************)
EXTENDS Integers, Sequences, FiniteSets, TLC

VARIABLES
    pc,               \* "idle", or "polling" inside dispatch_new_events
    handler,          \* self.handler: Option of the boxed handler (its identity)
    time_counter,     \* self.time_counter
    key_counter,      \* self.key_counter
    window,           \* inner size of the shared winit window
    surface,          \* self.surface: Option of the WlEglSurface (its size)
    closed,           \* the local `closed` of dispatch_new_events
    dispatch_handler, \* the local `handler` of dispatch_new_events
    result,           \* what the last dispatch_new_events call returned
    \* ---- history ----
    handlers_made,    \* handler objects passed to set_handler so far
    seat_calls,       \* every seat notification, in order
    batch,            \* native events drained by the current / last call
    calls,            \* callbacks delivered by the current / last call
    drained,          \* native events drained since construction
    presses,          \* key-press events drained since construction
    releases,         \* key-release events drained since construction
    lost_presses,     \* presses drained with no handler
    lost_releases,    \* releases drained with no handler, or with key_counter 0
    err_count,        \* dispatch calls that returned Err(WindowClosed)
    close_calls,      \* dispatch calls whose batch held a close notification
    last_stamp,       \* timestamp of the last callback delivered, -1 before any
    transformed,      \* the last coordinate query a handler made of an event
    creation,         \* the platform init ran on, and what init returned
    touching,         \* native contacts that are down, each with the handler
                      \* registered when it started
    slots_down,       \* <<handler, slot>>: told touch-down, not yet up or cancel
    events_loop,      \* native events pending in self.events_loop, oldest first
    queued_at_call    \* events_loop as the current / last dispatch call found it

vars == <<pc, handler, time_counter, key_counter, window, surface, closed,
          dispatch_handler, result, handlers_made, seat_calls, batch, calls,
          drained, presses, releases, lost_presses, lost_releases,
          err_count, close_calls, last_stamp, transformed,
          creation, touching, slots_down, events_loop, queued_at_call>>

program_vars == <<handler, time_counter, key_counter, window, surface>>

(***************************************************************************)
(* Bounds of the model.                                                    *)
(***************************************************************************)
MaxDrained == 3     \* native events drained over the adapter's lifetime
MaxHandlers == 2    \* handler objects ever passed to set_handler
CounterBits == 3    \* width of the two counters, standing in for the 32 of u32

(***************************************************************************)
(* Option values.                                                          *)
(***************************************************************************)
None == <<>>
Some(x) == <<x>>
IsSome(o) == o # <<>>
Unwrap(o) == o[1]

Max0(n) == IF n > 0 THEN n ELSE 0

(***************************************************************************)
(* Native events (winit::WindowEvent) as the closure matches them.         *)
(***************************************************************************)
Resized(x, y) == [kind |-> "Resized", x |-> x, y |-> y]
KeyboardInput(state, key_code) ==
    [kind |-> "KeyboardInput", state |-> state, key_code |-> key_code]
MouseMoved(x, y) == [kind |-> "MouseMoved", x |-> x, y |-> y]
LineDelta(x, y) == [kind |-> "LineDelta", x |-> x, y |-> y]
PixelDelta(x, y) == [kind |-> "PixelDelta", x |-> x, y |-> y]
MouseWheel(delta) == [kind |-> "MouseWheel", delta |-> delta]
MouseInput(state, button) ==
    [kind |-> "MouseInput", state |-> state, button |-> button]
Touch(phase, location, id) ==
    [kind |-> "Touch", phase |-> phase, location |-> location, id |-> id]
Closed == [kind |-> "Closed"]
Focused == [kind |-> "Focused"]   \* a variant the closure has no arm for

InitialSize == <<4, 4>>

KeyCodes == {30, 48}
KeyEvents ==
    {KeyboardInput(s, k) : s \in {"Pressed", "Released"}, k \in KeyCodes}
WheelEvents ==
    {MouseWheel(LineDelta(x, y)) : x \in {0, 1}, y \in {0, 2}}
        \cup {MouseWheel(PixelDelta(x, y)) : x \in {0, 1}, y \in {0, 2}}
TouchIds == {7, 8}
TouchEvents ==
    {Touch("Started", <<10, 10>>, id) : id \in TouchIds}
        \cup {Touch("Moved", <<11, 11>>, id) : id \in TouchIds}
        \cup {Touch("Ended", <<12, 12>>, id) : id \in TouchIds}
        \cup {Touch("Cancelled", <<12, 12>>, id) : id \in TouchIds}
\* One event for every arm of the closure's match.
\* Events with a position, and a resize
PositionEvents ==
    {Resized(3, 2), MouseMoved(5, 6), MouseMoved(0, 0),
     Touch("Started", <<10, 10>>, 7), Touch("Moved", <<11, 11>>, 7)}
\* Output sizes a handler transforms positions into
OutputSizes == {<<8, 6>>, <<2, 3>>}

ArmEvents ==
    {Resized(3, 2), KeyboardInput("Pressed", 30), KeyboardInput("Released", 30),
     MouseMoved(5, 6), MouseWheel(LineDelta(1, 2)), MouseInput("Pressed", "Left"),
     Touch("Started", <<10, 10>>, 7), Touch("Moved", <<11, 11>>, 7),
     Touch("Ended", <<12, 12>>, 7), Touch("Cancelled", <<12, 12>>, 7),
     Closed, Focused}

(***************************************************************************)
(* The backend's event structs and their trait accessors.                  *)
(***************************************************************************)
WinitKeyboardInputEvent(time, key, count, state) ==
    [time |-> time, key |-> key, count |-> count, state |-> state]
WinitMouseMovedEvent(time, x, y) == [time |-> time, x |-> x, y |-> y]
WinitMouseWheelEvent(axis, time, delta) ==
    [axis |-> axis, time |-> time, delta |-> delta]
WinitMouseInputEvent(time, button, state) ==
    [time |-> time, button |-> button, state |-> state]
WinitTouchStartedEvent(time, location, id) ==
    [time |-> time, location |-> location, id |-> id]
WinitTouchMovedEvent(time, location, id) ==
    [time |-> time, location |-> location, id |-> id]
WinitTouchEndedEvent(time, id) == [time |-> time, id |-> id]
WinitTouchCancelledEvent(time, id) == [time |-> time, id |-> id]

\* PointerAxisEvent for WinitMouseWheelEvent
axis(ev) == ev.axis
source(ev) ==
    CASE ev.delta.kind = "LineDelta" -> "Wheel"
      [] ev.delta.kind = "PixelDelta" -> "Continuous"
amount(ev) ==
    CASE ev.axis = "Horizontal" -> ev.delta.x
      [] ev.axis = "Vertical" -> ev.delta.y

\* slot() of the four touch events: Some(TouchSlot::new(self.id))
slot(ev) == Some([id |-> ev.id])

\* The coordinate transforms.  Every event struct shares the window, so a
\* transform reads the size the window has when it is called; size is
\* window.get_inner_size_points(), an Option.
UnwrapOr(o, default) == IF IsSome(o) THEN Unwrap(o) ELSE default
Min(a, b) == IF a <= b THEN a ELSE b
\* `/` on i32 and u32 with a positive divisor: the quotient toward zero
TruncDiv(a, b) == IF a >= 0 THEN a \div b ELSE -((-a) \div b)
\* `as u32` of an i32 that is not negative
AsU32(n) == CASE n >= 0 -> n

\* PointerMotionAbsoluteEvent for WinitMouseMovedEvent
MouseMoved_x_transformed(ev, width, size) ==
    AsU32(Min(TruncDiv(ev.x * width, UnwrapOr(size, <<width, 0>>)[1]), 0))
MouseMoved_y_transformed(ev, height, size) ==
    AsU32(Min(TruncDiv(ev.y * height, UnwrapOr(size, <<0, height>>)[2]), 0))

\* TouchDownEvent for WinitTouchStartedEvent
TouchStarted_x_transformed(ev, width, size) ==
    AsU32(Min(TruncDiv(ev.location[1] * width,
                       UnwrapOr(size, <<width, 0>>)[1]), 0))
TouchStarted_y_transformed(ev, height, size) ==
    AsU32(Min(TruncDiv(ev.location[2] * height,
                       UnwrapOr(size, <<0, height>>)[2]), 0))

\* TouchMotionEvent for WinitTouchMovedEvent
TouchMoved_x_transformed(ev, width, size) ==
    TruncDiv(AsU32(ev.location[1]) * width, UnwrapOr(size, <<width, 0>>)[1])
TouchMoved_y_transformed(ev, height, size) ==
    TruncDiv(AsU32(ev.location[2]) * height, UnwrapOr(size, <<0, height>>)[2])

\* x() and y() of the three events
RawPosition(cb, ev) ==
    IF cb = "on_pointer_move_absolute" THEN <<ev.x, ev.y>> ELSE ev.location

(***************************************************************************)
(* The arms of the closure's match.  Each yields the handler callbacks the *)
(* arm makes, in order, as <<callback name, event struct>> records.        *)
(***************************************************************************)
Call(cb, ev) == [cb |-> cb, event |-> ev]

\* time_counter and key_counter are u32: they hold 0 .. CounterMax.
CounterModulus == 2 ^ CounterBits
CounterMax == CounterModulus - 1
\* `+= 1` on a counter in a build without overflow checks
WrappingAdd(n) == (n + 1) % CounterModulus

\* Mutant: the release is not floored at 0.
KeyCounterStepUnfloored(state, kc) ==
    CASE state = "Pressed" -> WrappingAdd(kc)
      [] state = "Released" -> kc - 1

\* KeyboardInput arm: the counter update
KeyCounterStep(state, kc) ==
    CASE state = "Pressed" -> WrappingAdd(kc)
      [] state = "Released" -> IF kc - 1 >= 0 THEN kc - 1 ELSE 0

\* Mutant: the event carries the counter as it was before the update.
KeyboardInputArmStaleCount(e, tc, kc) ==
    <<Call("on_keyboard_key",
           WinitKeyboardInputEvent(tc, e.key_code, kc, e.state))>>

KeyboardInputArm(e, tc, kc) ==
    <<Call("on_keyboard_key",
           WinitKeyboardInputEvent(tc, e.key_code, KeyCounterStep(e.state, kc),
                                   e.state))>>

MouseMovedArm(e, tc) ==
    <<Call("on_pointer_move_absolute", WinitMouseMovedEvent(tc, e.x, e.y))>>

MouseWheelArm(e, tc) ==
    LET event == WinitMouseWheelEvent("Horizontal", tc, e.delta)
    IN  (IF e.delta.x # 0 THEN <<Call("on_pointer_axis", event)>> ELSE <<>>)
            \o (IF e.delta.y # 0 THEN <<Call("on_pointer_axis", event)>> ELSE <<>>)

MouseInputArm(e, tc) ==
    <<Call("on_pointer_button", WinitMouseInputEvent(tc, e.button, e.state))>>

\* Mutant: a contact's start is reported as a motion.
TouchStartedArmAsMotion(e, tc) ==
    <<Call("on_touch_motion", WinitTouchMovedEvent(tc, e.location, e.id))>>

TouchStartedArm(e, tc) ==
    <<Call("on_touch_down", WinitTouchStartedEvent(tc, e.location, e.id))>>

TouchMovedArm(e, tc) ==
    <<Call("on_touch_motion", WinitTouchMovedEvent(tc, e.location, e.id))>>

\* Mutant: the touch-up is delivered before the final motion.
TouchEndedArmUpFirst(e, tc) ==
    <<Call("on_touch_up", WinitTouchEndedEvent(tc, e.id)),
      Call("on_touch_motion", WinitTouchMovedEvent(tc, e.location, e.id))>>

TouchEndedArm(e, tc) ==
    <<Call("on_touch_motion", WinitTouchMovedEvent(tc, e.location, e.id)),
      Call("on_touch_up", WinitTouchEndedEvent(tc, e.id))>>

\* Mutant: a cancel is treated like an end, with a final motion.
TouchCancelledArmWithMotion(e, tc) ==
    <<Call("on_touch_motion", WinitTouchMovedEvent(tc, e.location, e.id)),
      Call("on_touch_cancel", WinitTouchCancelledEvent(tc, e.id))>>

TouchCancelledArm(e, tc) ==
    <<Call("on_touch_cancel", WinitTouchCancelledEvent(tc, e.id))>>

\* The callbacks of one closure invocation with a handler present.
Callbacks(e, tc, kc) ==
    CASE e.kind = "KeyboardInput" -> KeyboardInputArm(e, tc, kc)
      [] e.kind = "MouseMoved" -> MouseMovedArm(e, tc)
      [] e.kind = "MouseWheel" -> MouseWheelArm(e, tc)
      [] e.kind = "MouseInput" -> MouseInputArm(e, tc)
      [] e.kind = "Touch" /\ e.phase = "Started" -> TouchStartedArm(e, tc)
      [] e.kind = "Touch" /\ e.phase = "Moved" -> TouchMovedArm(e, tc)
      [] e.kind = "Touch" /\ e.phase = "Ended" -> TouchEndedArm(e, tc)
      [] e.kind = "Touch" /\ e.phase = "Cancelled" -> TouchCancelledArm(e, tc)
      [] OTHER -> <<>>

\* Resized arm: window.set_inner_size and wl_egl_surface.resize
ResizedWindow(e, w) == IF e.kind = "Resized" THEN <<e.x, e.y>> ELSE w
ResizedSurface(e, s) ==
    IF e.kind = "Resized" /\ IsSome(s) THEN Some(<<e.x, e.y>>) ELSE s

\* KeyboardInput arm: the new value of key_counter
KeyCounterAfter(e, kc) ==
    IF e.kind = "KeyboardInput" THEN KeyCounterStep(e.state, kc) ELSE kc

\* Events of a native queue
QueueEvents == {KeyboardInput("Pressed", 30), Closed, Focused}

\* Mutant: the flag follows the last event instead of latching.
ClosedAfterLastEvent(e, c) == e.kind = "Closed"

\* Closed arm: *closed_ptr = true
ClosedAfter(e, c) == IF e.kind = "Closed" THEN TRUE ELSE c

\* Mutant: the time counter is not advanced.
TimeCounterAfterStuck(tc) == tc

\* *time_counter += 1
TimeCounterAfter(tc) == WrappingAdd(tc)

\* The callbacks as the handler object h receives them.
Deliver(h, cbs) ==
    [i \in 1..Len(cbs) |-> [h |-> h, cb |-> cbs[i].cb, event |-> cbs[i].event]]

(***************************************************************************)
(* Construction: init_from_builder_with_gl_attr.  What the platform gives  *)
(* is the environment's choice: whether the window can be built, which     *)
(* native handles exist, whether the EGL context can be created.           *)
(***************************************************************************)
Platform(build, x11_xconnection, xlib_window, wayland_display, wayland_client_surface, context) ==
    [build |-> build, x11_xconnection |-> x11_xconnection,
     xlib_window |-> xlib_window, wayland_display |-> wayland_display,
     wayland_client_surface |-> wayland_client_surface,
     inner_size |-> InitialSize, context |-> context]
Platforms ==
    {Platform(b, xc, xw, wd, ws, c) :
        b \in {"Ok", "Err"}, xc \in BOOLEAN, xw \in BOOLEAN, wd \in BOOLEAN,
        ws \in BOOLEAN, c \in {"Ok", "Err"}}
X11Platform == Platform("Ok", TRUE, TRUE, FALSE, FALSE, "Ok")
WaylandPlatform == Platform("Ok", FALSE, FALSE, TRUE, TRUE, "Ok")

\* Result<(WinitGraphicsBackend, WinitInputBackend), CreationError>
Err(error) == [ok |-> FALSE, error |-> error, graphics |-> None, input |-> None]
Ok(graphics, input) ==
    [ok |-> TRUE, error |-> "none", graphics |-> Some(graphics),
     input |-> Some(input)]

\* The adapters of a successful init
Adapters(env, native, egl_surface) ==
    Ok([window |-> env.inner_size, native |-> native],
       [window |-> env.inner_size, surface |-> egl_surface, time_counter |-> 0,
        key_counter |-> 0, handler |-> None])

\* Mutant: the Wayland handles are tried before the X11 handles.
init_from_builder_with_gl_attrWaylandFirst(env) ==
    IF env.build = "Err" THEN Err("Window")
    ELSE IF env.wayland_display /\ env.wayland_client_surface
    THEN IF env.context = "Err" THEN Err("Context")
         ELSE Adapters(env, "Wayland", Some(env.inner_size))
    ELSE IF env.x11_xconnection /\ env.xlib_window
    THEN IF env.context = "Err" THEN Err("Context")
         ELSE Adapters(env, "X11", None)
    ELSE Err("NotSupported")

init_from_builder_with_gl_attr(env) ==
    IF env.build = "Err" THEN Err("Window")
    ELSE IF env.x11_xconnection /\ env.xlib_window
    THEN IF env.context = "Err" THEN Err("Context")
         ELSE Adapters(env, "X11", None)
    ELSE IF env.wayland_display /\ env.wayland_client_surface
    THEN IF env.context = "Err" THEN Err("Context")
         ELSE Adapters(env, "Wayland", Some(env.inner_size))
    ELSE Err("NotSupported")

\* The state after init ran on platform env.  When init failed there is no
\* adapter to call: pc is "no_adapter" and the adapter's fields are unused.
InitWith(env, tc, kc) ==
    LET made == init_from_builder_with_gl_attr(env)
    IN  /\ creation = [env |-> env, result |-> made]
        /\ pc = IF made.ok THEN "idle" ELSE "no_adapter"
        /\ handler = None
        /\ time_counter = tc
        /\ key_counter = kc
        /\ window = env.inner_size
        /\ surface = IF made.ok THEN Unwrap(made.input).surface ELSE None
        /\ closed = FALSE
        /\ dispatch_handler = None
        /\ result = "none"
        /\ handlers_made = 0
        /\ seat_calls = <<>>
        /\ batch = <<>>
        /\ calls = <<>>
        /\ drained = 0
        /\ presses = 0
        /\ releases = 0
        /\ lost_presses = 0
        /\ lost_releases = 0
        /\ err_count = 0
        /\ close_calls = 0
        /\ last_stamp = tc - 1
        /\ transformed = None
        /\ touching = {}
        /\ slots_down = {}
        /\ events_loop = <<>>
        /\ queued_at_call = <<>>

InitOn(env) == InitWith(env, 0, 0)

\* An adapter was made, over X11 or over Wayland.
Init == \E env \in {X11Platform, WaylandPlatform} : InitOn(env)
\* Init ran on any platform.
InitAnywhere == \E env \in Platforms : InitOn(env)

\* An adapter that has been in use for long: its handlers handled so many
\* events, key presses among them, that the counters stand at or just below
\* their maximum, and the last handler was cleared.  The history variables
\* start here.
AgedCounters == {CounterMax - 1, CounterMax}
InitAged ==
    \E tc \in AgedCounters, kc \in AgedCounters :
        kc <= tc /\ InitWith(X11Platform, tc, kc)

dispatch_history ==
    <<batch, calls, drained, presses, releases, lost_presses, lost_releases,
      err_count, close_calls, last_stamp>>
dispatch_locals == <<closed, dispatch_handler, result>>
\* History that only some specifications record.
touch_history == <<touching, slots_down>>
queue_history == <<events_loop, queued_at_call>>
aux_vars == <<transformed, creation, touch_history, queue_history>>

(***************************************************************************)
(* set_handler and clear_handler.                                          *)
(***************************************************************************)
SeatCall(cb, h, by) == [cb |-> cb, h |-> h, by |-> by]

\* clear_handler: self.handler.take(), then on_seat_destroyed on what was taken
ClearHandlerCalls(old, by) ==
    IF IsSome(old) THEN <<SeatCall("on_seat_destroyed", Unwrap(old), by)>>
    ELSE <<>>

\* Mutant: the new handler is announced before the old one is torn down.
SetHandlerCallsSetupFirst(old, h) ==
    <<SeatCall("on_seat_created", h, "set_handler")>>
        \o ClearHandlerCalls(old, "set_handler")

\* set_handler: clear_handler if a handler is there, then on_seat_created
SetHandlerCalls(old, h) ==
    ClearHandlerCalls(old, "set_handler")
        \o <<SeatCall("on_seat_created", h, "set_handler")>>

\* set_handler is called with a handler object it takes ownership of: every
\* call brings a new object, named by its number.
\* Mutant: registering a handler starts the counters afresh.
set_handlerResettingCounters(h) ==
    /\ pc = "idle"
    /\ h = handlers_made + 1
    /\ h <= MaxHandlers
    /\ handlers_made' = h
    /\ seat_calls' = seat_calls \o SetHandlerCalls(handler, h)
    /\ handler' = Some(h)
    /\ time_counter' = 0
    /\ key_counter' = 0
    /\ UNCHANGED <<pc, window, surface>>
    /\ UNCHANGED <<dispatch_locals, dispatch_history, aux_vars>>

set_handler(h) ==
    /\ pc = "idle"
    /\ h = handlers_made + 1
    /\ h <= MaxHandlers
    /\ handlers_made' = h
    /\ seat_calls' = seat_calls \o SetHandlerCalls(handler, h)
    /\ handler' = Some(h)
    /\ UNCHANGED <<pc, time_counter, key_counter, window, surface>>
    /\ UNCHANGED <<dispatch_locals, dispatch_history, aux_vars>>

\* Mutant: the handler is notified but stays in the slot.
clear_handlerWithoutTake ==
    /\ pc = "idle"
    /\ seat_calls' = seat_calls \o ClearHandlerCalls(handler, "clear_handler")
    /\ UNCHANGED <<pc, handler, time_counter, key_counter, window, surface>>
    /\ UNCHANGED <<handlers_made, dispatch_locals, dispatch_history, aux_vars>>

clear_handler ==
    /\ pc = "idle"
    /\ seat_calls' = seat_calls \o ClearHandlerCalls(handler, "clear_handler")
    /\ handler' = None
    /\ UNCHANGED <<pc, time_counter, key_counter, window, surface>>
    /\ UNCHANGED <<handlers_made, dispatch_locals, dispatch_history, aux_vars>>

(***************************************************************************)
(* dispatch_new_events: the prologue, one closure invocation per pending   *)
(* native event, and the return.  While it runs it holds &mut self, so no  *)
(* other operation of the adapter runs in between.                         *)
(***************************************************************************)
Prologue ==
    /\ pc = "idle"
    /\ pc' = "polling"
    /\ closed' = FALSE
    /\ dispatch_handler' = handler
    /\ result' = "none"
    /\ batch' = <<>>
    /\ calls' = <<>>
    /\ UNCHANGED <<program_vars, handlers_made, seat_calls, drained, presses,
                   releases, lost_presses, lost_releases, err_count, close_calls,
                   last_stamp, transformed, creation, touch_history>>

dispatch_begin == Prologue /\ UNCHANGED queue_history

IsPress(e) == e.kind = "KeyboardInput" /\ e.state = "Pressed"
IsRelease(e) == e.kind = "KeyboardInput" /\ e.state = "Released"

\* What the caller of poll_events sees drained, whatever the closure does.
Drain(event) ==
    /\ drained < MaxDrained
    /\ drained' = drained + 1
    /\ batch' = Append(batch, event)
    /\ presses' = presses + (IF IsPress(event) THEN 1 ELSE 0)
    /\ releases' = releases + (IF IsRelease(event) THEN 1 ELSE 0)

\* The timestamp the handler saw last, after the callbacks cbs.
StampAfter(cbs, stamp) ==
    IF cbs = <<>> THEN stamp ELSE cbs[Len(cbs)].event.time

\* Mutant: the callbacks of an event are put before those already made.
ClosureSomeNewestFirst(event) ==
    /\ window' = ResizedWindow(event, window)
    /\ surface' = ResizedSurface(event, surface)
    /\ key_counter' = KeyCounterAfter(event, key_counter)
    /\ calls' = Deliver(Unwrap(dispatch_handler),
                        Callbacks(event, time_counter, key_counter)) \o calls
    /\ closed' = ClosedAfter(event, closed)
    /\ time_counter' = TimeCounterAfter(time_counter)
    /\ lost_presses' = lost_presses
    /\ lost_releases' = lost_releases
            + (IF IsRelease(event) /\ key_counter = 0 THEN 1 ELSE 0)
    /\ last_stamp' = StampAfter(Callbacks(event, time_counter, key_counter),
                                last_stamp)

\* The closure with a handler: the match, then the time counter.
ClosureSome(event) ==
    /\ window' = ResizedWindow(event, window)
    /\ surface' = ResizedSurface(event, surface)
    /\ key_counter' = KeyCounterAfter(event, key_counter)
    /\ calls' = calls \o Deliver(Unwrap(dispatch_handler),
                                 Callbacks(event, time_counter, key_counter))
    /\ closed' = ClosedAfter(event, closed)
    /\ time_counter' = TimeCounterAfter(time_counter)
    /\ lost_presses' = lost_presses
    /\ lost_releases' = lost_releases
            + (IF IsRelease(event) /\ key_counter = 0 THEN 1 ELSE 0)
    /\ last_stamp' = StampAfter(Callbacks(event, time_counter, key_counter),
                                last_stamp)

\* Mutant: key events are counted though nobody is told.
ClosureNoneCounting(event) ==
    /\ key_counter' = KeyCounterAfter(event, key_counter)
    /\ UNCHANGED <<window, surface, calls, closed, time_counter, last_stamp>>
    /\ lost_presses' = lost_presses + (IF IsPress(event) THEN 1 ELSE 0)
    /\ lost_releases' = lost_releases + (IF IsRelease(event) THEN 1 ELSE 0)

\* The closure without a handler: the `if let` has no else branch.
ClosureNone(event) ==
    /\ UNCHANGED <<window, surface, key_counter, calls, closed, time_counter,
                   last_stamp>>
    /\ lost_presses' = lost_presses + (IF IsPress(event) THEN 1 ELSE 0)
    /\ lost_releases' = lost_releases + (IF IsRelease(event) THEN 1 ELSE 0)

\* A `+= 1` of this invocation is applied to a counter at its maximum.
KeyOverflows(event) == IsPress(event) /\ key_counter = CounterMax
TimeOverflows == time_counter = CounterMax

\* The closure with a handler in a build with overflow checks, when a
\* `+= 1` overflows: the thread panics, at the key counter before the
\* callback is made, at the time counter after the match has run.
ClosureOverflow(event) ==
    /\ KeyOverflows(event) \/ TimeOverflows
    /\ pc' = "panicked"
    /\ IF KeyOverflows(event)
       THEN UNCHANGED <<window, surface, key_counter, calls, closed, last_stamp,
                        lost_releases>>
       ELSE /\ window' = ResizedWindow(event, window)
            /\ surface' = ResizedSurface(event, surface)
            /\ key_counter' = KeyCounterAfter(event, key_counter)
            /\ calls' = calls \o Deliver(Unwrap(dispatch_handler),
                                         Callbacks(event, time_counter, key_counter))
            /\ closed' = ClosedAfter(event, closed)
            /\ lost_releases' = lost_releases
                    + (IF IsRelease(event) /\ key_counter = 0 THEN 1 ELSE 0)
            /\ last_stamp' = StampAfter(Callbacks(event, time_counter, key_counter),
                                        last_stamp)
    /\ UNCHANGED <<time_counter, lost_presses>>

\* One invocation of the closure poll_events is given.  Where a counter
\* overflows the build decides: it wraps, or the thread panics.
Closure(event) ==
    /\ pc = "polling"
    /\ Drain(event)
    /\ \/ /\ IF IsSome(dispatch_handler) THEN ClosureSome(event)
                                          ELSE ClosureNone(event)
          /\ pc' = pc
       \/ /\ IsSome(dispatch_handler)
          /\ ClosureOverflow(event)
    /\ UNCHANGED <<handler, dispatch_handler, result, handlers_made,
                   seat_calls, err_count, close_calls, transformed, creation>>

poll_events_closure(event) ==
    Closure(event) /\ UNCHANGED <<touch_history, queue_history>>

\* The native touch stream is well-formed per contact id: Started, any
\* number of Moved, then one Ended or Cancelled.
WellFormed(event) ==
    event.kind = "Touch" =>
        IF event.phase = "Started"
        THEN \A t \in touching : t.id # event.id
        ELSE \E t \in touching : t.id = event.id

TouchingAfter(event, under, tg) ==
    CASE event.kind = "Touch" /\ event.phase = "Started" ->
            tg \cup {[id |-> event.id, under |-> under]}
      [] event.kind = "Touch" /\ event.phase \in {"Ended", "Cancelled"} ->
            {t \in tg : t.id # event.id}
      [] OTHER -> tg

\* The slots each handler holds down after the callbacks cbs, in order.
RECURSIVE SlotsAfter(_, _)
SlotsAfter(cbs, sd) ==
    IF cbs = <<>> THEN sd
    ELSE LET c == Head(cbs)
             held == <<c.h, slot(c.event)>>
         IN  SlotsAfter(Tail(cbs),
                        CASE c.cb = "on_touch_down" -> sd \cup {held}
                          [] c.cb \in {"on_touch_up", "on_touch_cancel"} -> sd \ {held}
                          [] OTHER -> sd)

\* The closure on an event of a well-formed touch stream.
poll_touch_stream(event) ==
    /\ WellFormed(event)
    /\ Closure(event)
    /\ touching' = TouchingAfter(event, dispatch_handler, touching)
    /\ slots_down' = SlotsAfter(SubSeq(calls', Len(calls) + 1, Len(calls')),
                                slots_down)
    /\ UNCHANGED queue_history

HasClose(b) == \E i \in 1..Len(b) : b[i].kind = "Closed"

\* Mutant: the two results are swapped.
DispatchResultSwapped(c) == IF c THEN "Ok" ELSE "WindowClosed"

\* if closed { Err(WindowClosed) } else { Ok(()) }
DispatchResult(c) == IF c THEN "WindowClosed" ELSE "Ok"

dispatch_return ==
    /\ pc = "polling"
    /\ pc' = "idle"
    /\ result' = DispatchResult(closed)
    /\ closed' = FALSE
    /\ err_count' = err_count + (IF result' = "WindowClosed" THEN 1 ELSE 0)
    /\ close_calls' = close_calls + (IF HasClose(batch) THEN 1 ELSE 0)
    /\ UNCHANGED <<program_vars, dispatch_handler, handlers_made, seat_calls,
                   batch, calls, drained, presses, releases, lost_presses,
                   lost_releases, last_stamp, aux_vars>>

(***************************************************************************)
(* dispatch_new_events over an explicit native queue.  The windowing       *)
(* system queues events between calls; poll_events hands the closure each  *)
(* event pending when it is called, oldest first, and returns when none is *)
(* left, without waiting for more.                                         *)
(***************************************************************************)
events_loop_push(event) ==
    /\ pc = "idle"
    /\ drained + Len(events_loop) < MaxDrained
    /\ events_loop' = Append(events_loop, event)
    /\ UNCHANGED <<pc, program_vars, dispatch_locals, dispatch_history,
                   handlers_made, seat_calls, transformed, creation,
                   touch_history, queued_at_call>>

dispatch_begin_on_queue ==
    /\ Prologue
    /\ queued_at_call' = events_loop
    /\ UNCHANGED events_loop

poll_events_next ==
    /\ events_loop # <<>>
    /\ Closure(Head(events_loop))
    /\ events_loop' = Tail(events_loop)
    /\ UNCHANGED <<queued_at_call, touch_history>>

poll_events_done ==
    /\ events_loop = <<>>
    /\ dispatch_return

(***************************************************************************)
(* A handler asks an event it was given for its position in an output of   *)
(* size <<width, height>>.  It may do so inside the callback or later,     *)
(* the event structs being Clone.                                          *)
(***************************************************************************)
Positioned == {"on_pointer_move_absolute", "on_touch_down", "on_touch_motion"}

x_transformed(cb, ev, width, size) ==
    CASE cb = "on_pointer_move_absolute" -> MouseMoved_x_transformed(ev, width, size)
      [] cb = "on_touch_down" -> TouchStarted_x_transformed(ev, width, size)
      [] cb = "on_touch_motion" -> TouchMoved_x_transformed(ev, width, size)
y_transformed(cb, ev, height, size) ==
    CASE cb = "on_pointer_move_absolute" -> MouseMoved_y_transformed(ev, height, size)
      [] cb = "on_touch_down" -> TouchStarted_y_transformed(ev, height, size)
      [] cb = "on_touch_motion" -> TouchMoved_y_transformed(ev, height, size)

\* window.get_inner_size_points() of the live window
get_inner_size_points(w) == Some(w)

transform(j, width, height) ==
    /\ j \in 1..Len(calls)
    /\ calls[j].cb \in Positioned
    /\ transformed' =
          Some([cb |-> calls[j].cb,
                raw |-> RawPosition(calls[j].cb, calls[j].event),
                into |-> <<width, height>>,
                size |-> window,
                x |-> x_transformed(calls[j].cb, calls[j].event, width,
                                    get_inner_size_points(window)),
                y |-> y_transformed(calls[j].cb, calls[j].event, height,
                                    get_inner_size_points(window))])
    /\ UNCHANGED <<pc, program_vars, dispatch_locals, dispatch_history,
                   handlers_made, seat_calls, creation, touch_history,
                   queue_history>>

(***************************************************************************)
(* Specifications: the same operations over different event alphabets.     *)
(***************************************************************************)
HandlerOps == (\E h \in 1..MaxHandlers : set_handler(h)) \/ clear_handler

PollArm == \E e \in ArmEvents : poll_events_closure(e)
PollKey == \E e \in KeyEvents : poll_events_closure(e)
PollWheel == \E e \in WheelEvents : poll_events_closure(e)
PollTouch == \E e \in TouchEvents : poll_events_closure(e)

Next == HandlerOps \/ dispatch_begin \/ PollArm \/ dispatch_return
Spec == Init /\ [][Next]_vars

NextKey == HandlerOps \/ dispatch_begin \/ PollKey \/ dispatch_return
SpecKey == Init /\ [][NextKey]_vars
\* Key events on an adapter whose counters are about to overflow.
SpecAged == InitAged /\ [][NextKey]_vars

NextWheel == HandlerOps \/ dispatch_begin \/ PollWheel \/ dispatch_return
SpecWheel == Init /\ [][NextWheel]_vars

NextTouch == HandlerOps \/ dispatch_begin \/ PollTouch \/ dispatch_return
SpecTouch == Init /\ [][NextTouch]_vars

PollPosition == \E e \in PositionEvents : poll_events_closure(e)
Transform ==
    \E j \in 1..MaxDrained, out \in OutputSizes : transform(j, out[1], out[2])
NextPosition ==
    HandlerOps \/ dispatch_begin \/ PollPosition \/ dispatch_return \/ Transform
SpecPosition == Init /\ [][NextPosition]_vars

\* A well-formed touch stream of two contacts.
PollTouchStream == \E e \in TouchEvents : poll_touch_stream(e)
NextTouchStream ==
    HandlerOps \/ dispatch_begin \/ PollTouchStream \/ dispatch_return
SpecTouchStream == Init /\ [][NextTouchStream]_vars

\* dispatch_new_events over an explicit native queue, and the same with the
\* call running on once begun: it does not block and nothing preempts it.
PushQueue == \E e \in QueueEvents : events_loop_push(e)
NextQueue ==
    HandlerOps \/ PushQueue \/ dispatch_begin_on_queue \/ poll_events_next
        \/ poll_events_done
SpecQueue == Init /\ [][NextQueue]_vars
FairSpecQueue ==
    SpecQueue /\ WF_vars(poll_events_next) /\ WF_vars(poll_events_done)

\* Any platform, and the events that touch what init made.
SurfaceEvents == {Resized(3, 2), KeyboardInput("Pressed", 30), Closed}
PollSurface == \E e \in SurfaceEvents : poll_events_closure(e)
NextAnywhere == HandlerOps \/ dispatch_begin \/ PollSurface \/ dispatch_return
SpecAnywhere == InitAnywhere /\ [][NextAnywhere]_vars

(***************************************************************************)
(* Vocabulary of the properties.                                           *)
(***************************************************************************)
\* A dispatch_new_events call has returned, and nothing was called since
\* that changes what it left behind.
Returned == pc = "idle" /\ result # "none"
\* This step is one invocation of the closure, on StepEvent.
ClosureStep == pc = "polling" /\ pc' = "polling" /\ Len(batch') = Len(batch) + 1
StepEvent == batch'[Len(batch')]
\* The callbacks this step delivered, and that it only added callbacks.
NewCalls == SubSeq(calls', Len(calls) + 1, Len(calls'))
OnlyAppends == Len(calls') >= Len(calls) /\ SubSeq(calls', 1, Len(calls)) = calls
LastCall == calls[Len(calls)]
\* The time counter when the current / last call began (handler registered).
TimeAtBegin == time_counter - Len(batch)
\* How many callbacks a native event of each kind stands for.
CallsOwed(e) ==
    CASE e.kind \in {"KeyboardInput", "MouseMoved", "MouseInput"} -> 1
      [] e.kind = "MouseWheel" ->
            (IF e.delta.x # 0 THEN 1 ELSE 0) + (IF e.delta.y # 0 THEN 1 ELSE 0)
      [] e.kind = "Touch" -> IF e.phase = "Ended" THEN 2 ELSE 1
      [] OTHER -> 0
\* The callbacks of the current / last call that carry timestamp t.
CallsStamped(t) == {j \in 1..Len(calls) : calls[j].event.time = t}
\* The axis source a scroll delta of each kind stands for.
WheelSource(delta) == IF delta.kind = "LineDelta" THEN "Wheel" ELSE "Continuous"
\* The touch slot of a native contact id.
SlotOf(id) == Some([id |-> id])
\* The callbacks a native event of each kind stands for, by name.
NamesOwed(e) ==
    CASE e.kind = "KeyboardInput" -> <<"on_keyboard_key">>
      [] e.kind = "MouseMoved" -> <<"on_pointer_move_absolute">>
      [] e.kind = "MouseInput" -> <<"on_pointer_button">>
      [] e.kind = "MouseWheel" ->
            (IF e.delta.x # 0 THEN <<"on_pointer_axis">> ELSE <<>>)
                \o (IF e.delta.y # 0 THEN <<"on_pointer_axis">> ELSE <<>>)
      [] e.kind = "Touch" /\ e.phase = "Started" -> <<"on_touch_down">>
      [] e.kind = "Touch" /\ e.phase = "Moved" -> <<"on_touch_motion">>
      [] e.kind = "Touch" /\ e.phase = "Ended" -> <<"on_touch_motion", "on_touch_up">>
      [] e.kind = "Touch" /\ e.phase = "Cancelled" -> <<"on_touch_cancel">>
      [] OTHER -> <<>>
\* The <<name, timestamp>> sequence a batch b begun at time t stands for.
RECURSIVE OutputOwed(_, _)
OutputOwed(b, t) ==
    IF b = <<>> THEN <<>>
    ELSE [j \in 1..Len(NamesOwed(Head(b))) |-> <<NamesOwed(Head(b))[j], t>>]
            \o OutputOwed(Tail(b), t + 1)
\* The last resize of a batch that holds one.
HasResize(b) == \E i \in 1..Len(b) : b[i].kind = "Resized"
LastResize(b) ==
    LET i == CHOOSE i \in 1..Len(b) :
                /\ b[i].kind = "Resized"
                /\ \A k \in (i + 1)..Len(b) : b[k].kind # "Resized"
    IN  <<b[i].x, b[i].y>>
\* Where the seat notifications of each kind to handler h sit in seat_calls.
SeatCreated(h) ==
    {j \in 1..Len(seat_calls) :
        seat_calls[j].cb = "on_seat_created" /\ seat_calls[j].h = h}
SeatDestroyed(h) ==
    {j \in 1..Len(seat_calls) :
        seat_calls[j].cb = "on_seat_destroyed" /\ seat_calls[j].h = h}
\* Every handler made so far was told seat-created once, seat-destroyed at
\* most once and later, and the registered handler is the one not yet told.
SeatBalancedNow ==
    \A h \in 1..MaxHandlers :
        /\ Cardinality(SeatCreated(h)) = (IF h <= handlers_made THEN 1 ELSE 0)
        /\ Cardinality(SeatDestroyed(h)) <= 1
        /\ \A d \in SeatDestroyed(h) : \E c \in SeatCreated(h) : c < d
        /\ (handler = Some(h)) <=> (SeatCreated(h) # {} /\ SeatDestroyed(h) = {})
\* The seat notifications this step added.
NewSeatCalls == SubSeq(seat_calls', Len(seat_calls) + 1, Len(seat_calls'))

(***************************************************************************)
(* C1.  The held-key counter and the count of each emitted keyboard-key    *)
(* event equal max(0, presses - releases) over the key events drained so   *)
(* far, at every point of every sequence.                                  *)
(***************************************************************************)
C1_MaxFormula ==
    /\ key_counter = Max0(presses - releases)
    /\ (pc = "polling" /\ IsSome(dispatch_handler) /\ batch # <<>>
            /\ batch[Len(batch)].kind = "KeyboardInput")
         => LastCall.event.count = Max0(presses - releases)

\* C1 as amended: the counter is the presses that were counted minus the
\* releases that were counted, where a press drained with no handler and a
\* release drained with no handler or at counter 0 are not counted; it is
\* max(0, presses - releases) when every key event was counted.
C1_CountedKeys ==
    LET counted == (presses - lost_presses) - (releases - lost_releases)
    IN  /\ key_counter = counted
        /\ (pc = "polling" /\ IsSome(dispatch_handler) /\ batch # <<>>
                /\ batch[Len(batch)].kind = "KeyboardInput")
             => /\ calls # <<>>
                /\ LastCall.cb = "on_keyboard_key"
                /\ LastCall.event.count = counted
        /\ (lost_presses = 0 /\ lost_releases = 0)
             => key_counter = Max0(presses - releases)

\* A release at counter 0 followed by a press, both handled: the count is 1.
C1_Witness ==
    /\ pc = "polling" /\ IsSome(dispatch_handler)
    /\ presses = 1 /\ releases = 1 /\ lost_presses = 0 /\ lost_releases = 1
    /\ batch # <<>> /\ IsPress(batch[Len(batch)])
    /\ key_counter = 1 /\ LastCall.event.count = 1

(***************************************************************************)
(* C2.  The time counter starts at 0 and always equals the number of       *)
(* native events drained by all dispatch calls so far.                     *)
(***************************************************************************)
C2_TimeCountsDrained == time_counter = drained

(***************************************************************************)
(* C3.  A dispatch call made with no handler registered whose batch holds  *)
(* a close notification returns WindowClosed and delivers nothing.         *)
(***************************************************************************)
C3_CloseTrackedWithoutHandler ==
    (Returned /\ ~IsSome(dispatch_handler) /\ HasClose(batch))
        => (result = "WindowClosed" /\ calls = <<>>)

(***************************************************************************)
(* C4.  With a handler registered a dispatch call returns WindowClosed     *)
(* exactly when its batch holds a close notification, Ok otherwise, and a  *)
(* close does not stop the drain: every event of the batch, also after a   *)
(* close, gets its timestamp and its callbacks, delivered in batch order.  *)
(***************************************************************************)
C4_CloseEndsCallNotDrain ==
    (Returned /\ IsSome(dispatch_handler)) =>
        /\ result = (IF HasClose(batch) THEN "WindowClosed" ELSE "Ok")
        /\ \A i \in 1..Len(batch) :
              Cardinality(CallsStamped(TimeAtBegin + i - 1)) = CallsOwed(batch[i])
        /\ \A j, k \in 1..Len(calls) :
              j < k => calls[j].event.time <= calls[k].event.time

\* A batch with two closes and a key press between them: the press is
\* delivered and the call returns the error.
C4_Witness ==
    /\ Returned /\ IsSome(dispatch_handler)
    /\ batch = <<Closed, KeyboardInput("Pressed", 30), Closed>>
    /\ result = "WindowClosed"
    /\ Len(calls) = 1 /\ calls[1].cb = "on_keyboard_key"
    /\ calls[1].event.time = time_counter - 2

(***************************************************************************)
(* C5.  set_handler(B) while A is registered calls A's seat-destroyed      *)
(* before B's seat-created and leaves B registered; the stream of seat     *)
(* notifications never has two seat-created in a row.                      *)
(***************************************************************************)
C5_TeardownBeforeSetup ==
    /\ \A i \in 1..Len(seat_calls) :
          LET c == seat_calls[i] IN
          /\ c.cb = "on_seat_created" =>
                (i = 1 \/ seat_calls[i - 1].cb = "on_seat_destroyed")
          /\ c.cb = "on_seat_destroyed" =>
                /\ i > 1
                /\ seat_calls[i - 1].cb = "on_seat_created"
                /\ seat_calls[i - 1].h = c.h
          /\ (c.cb = "on_seat_destroyed" /\ c.by = "set_handler") =>
                /\ i < Len(seat_calls)
                /\ seat_calls[i + 1].cb = "on_seat_created"
                /\ seat_calls[i + 1].by = "set_handler"
                /\ seat_calls[i + 1].h # c.h
    /\ handler = (IF seat_calls = <<>>
                     \/ seat_calls[Len(seat_calls)].cb = "on_seat_destroyed"
                  THEN None
                  ELSE Some(seat_calls[Len(seat_calls)].h))

\* Handler 2 was set while handler 1 was registered.
C5_Witness ==
    /\ handler = Some(2)
    /\ seat_calls = <<SeatCall("on_seat_created", 1, "set_handler"),
                      SeatCall("on_seat_destroyed", 1, "set_handler"),
                      SeatCall("on_seat_created", 2, "set_handler")>>

(***************************************************************************)
(* C6.  A wheel event with both deltas non-zero, handled with a handler    *)
(* registered, yields exactly two axis notifications: a Horizontal one     *)
(* whose amount is the horizontal delta and a Vertical one whose amount is *)
(* the vertical delta, both with source Wheel for a line delta and         *)
(* Continuous for a pixel delta.                                           *)
(***************************************************************************)
C6_BothAxes ==
    [][(ClosureStep /\ IsSome(dispatch_handler) /\ StepEvent.kind = "MouseWheel"
            /\ StepEvent.delta.x # 0 /\ StepEvent.delta.y # 0)
        => /\ OnlyAppends
           /\ Len(NewCalls) = 2
           /\ \A j \in 1..2 : /\ NewCalls[j].cb = "on_pointer_axis"
                              /\ source(NewCalls[j].event) = WheelSource(StepEvent.delta)
           /\ \E j \in 1..2 : /\ axis(NewCalls[j].event) = "Horizontal"
                              /\ amount(NewCalls[j].event) = StepEvent.delta.x
           /\ \E j \in 1..2 : /\ axis(NewCalls[j].event) = "Vertical"
                              /\ amount(NewCalls[j].event) = StepEvent.delta.y]_vars

(***************************************************************************)
(* C7.  A wheel event with one delta zero yields no axis notification for  *)
(* that axis: only a Vertical one when the horizontal delta is 0, only a   *)
(* Horizontal one when the vertical delta is 0, none when both are 0.      *)
(***************************************************************************)
C7_ZeroAxisSilent ==
    [][(ClosureStep /\ IsSome(dispatch_handler) /\ StepEvent.kind = "MouseWheel")
        => /\ OnlyAppends
           /\ StepEvent.delta.x = 0 =>
                \A j \in 1..Len(NewCalls) : axis(NewCalls[j].event) # "Horizontal"
           /\ StepEvent.delta.y = 0 =>
                \A j \in 1..Len(NewCalls) : axis(NewCalls[j].event) # "Vertical"
           /\ (StepEvent.delta.x = 0 /\ StepEvent.delta.y # 0) =>
                (Len(NewCalls) = 1 /\ axis(NewCalls[1].event) = "Vertical")
           /\ (StepEvent.delta.x # 0 /\ StepEvent.delta.y = 0) =>
                (Len(NewCalls) = 1 /\ axis(NewCalls[1].event) = "Horizontal")
           /\ (StepEvent.delta.x = 0 /\ StepEvent.delta.y = 0) =>
                NewCalls = <<>>]_vars

(***************************************************************************)
(* C8.  A touch-end event handled with a handler registered delivers       *)
(* exactly one touch-motion at the final location immediately followed by  *)
(* exactly one touch-up, nothing else, both with the slot of the contact   *)
(* id.                                                                     *)
(***************************************************************************)
C8_TouchEndIsMotionThenUp ==
    [][(ClosureStep /\ IsSome(dispatch_handler) /\ StepEvent.kind = "Touch"
            /\ StepEvent.phase = "Ended")
        => /\ OnlyAppends
           /\ Len(NewCalls) = 2
           /\ NewCalls[1].cb = "on_touch_motion"
           /\ NewCalls[1].event.location = StepEvent.location
           /\ slot(NewCalls[1].event) = SlotOf(StepEvent.id)
           /\ NewCalls[2].cb = "on_touch_up"
           /\ slot(NewCalls[2].event) = SlotOf(StepEvent.id)
           /\ \A j \in 1..2 : NewCalls[j].h = Unwrap(handler)]_vars

\* The batch [TouchStart(7, (10,10)), TouchEnd(7, (12,12))] was delivered as
\* TouchDown(slot 7, (10,10)), TouchMotion(slot 7, (12,12)), TouchUp(slot 7).
C8_Witness ==
    /\ IsSome(dispatch_handler)
    /\ batch = <<Touch("Started", <<10, 10>>, 7), Touch("Ended", <<12, 12>>, 7)>>
    /\ Len(calls) = 3
    /\ calls[1].cb = "on_touch_down" /\ calls[1].event.location = <<10, 10>>
    /\ calls[2].cb = "on_touch_motion" /\ calls[2].event.location = <<12, 12>>
    /\ calls[3].cb = "on_touch_up"
    /\ \A j \in 1..3 : slot(calls[j].event) = SlotOf(7)

(***************************************************************************)
(* C9.  A touch-cancel event handled with a handler registered delivers    *)
(* exactly one touch-cancel with the slot of the contact id, and no        *)
(* touch-motion or touch-up.                                               *)
(***************************************************************************)
C9_TouchCancelAlone ==
    [][(ClosureStep /\ IsSome(dispatch_handler) /\ StepEvent.kind = "Touch"
            /\ StepEvent.phase = "Cancelled")
        => /\ OnlyAppends
           /\ Len(NewCalls) = 1
           /\ NewCalls[1].cb = "on_touch_cancel"
           /\ slot(NewCalls[1].event) = SlotOf(StepEvent.id)
           /\ NewCalls[1].h = Unwrap(handler)]_vars

\* A contact that was started and then cancelled.
C9_Witness ==
    /\ IsSome(dispatch_handler)
    /\ batch = <<Touch("Started", <<10, 10>>, 8), Touch("Cancelled", <<12, 12>>, 8)>>
    /\ Len(calls) = 2
    /\ calls[1].cb = "on_touch_down"
    /\ calls[2].cb = "on_touch_cancel" /\ slot(calls[2].event) = SlotOf(8)

(***************************************************************************)
(* C10.  Over any sequence of dispatch calls the WindowClosed error is     *)
(* returned exactly once: by the first call whose batch held a close       *)
(* notification, and by no later call.                                     *)
(***************************************************************************)
C10_ClosedReportedOnce ==
    pc = "idle" => err_count = (IF close_calls > 0 THEN 1 ELSE 0)

(***************************************************************************)
(* C11.  Within one dispatch call the handler receives the callbacks in    *)
(* the arrival order of the native events: the callback sequence is the    *)
(* concatenation, in batch order, of each event's output (none for resize, *)
(* close and unrecognized events, one for keyboard, pointer motion,        *)
(* pointer button, touch-start, touch-move and touch-cancel, up to two for *)
(* wheel, two for touch-end), nothing reordered, duplicated or left out.   *)
(***************************************************************************)
C11_CallbacksInArrivalOrder ==
    IsSome(dispatch_handler) =>
        /\ [j \in 1..Len(calls) |-> <<calls[j].cb, calls[j].event.time>>]
              = OutputOwed(batch, TimeAtBegin)
        /\ \A j \in 1..Len(calls) : calls[j].h = Unwrap(dispatch_handler)

\* A touch-end, a resize and a key press in one batch.
C11_Witness ==
    /\ IsSome(dispatch_handler)
    /\ batch = <<Touch("Ended", <<12, 12>>, 7), Resized(3, 2),
                 KeyboardInput("Pressed", 30)>>
    /\ Len(calls) = 3
    /\ calls[1].cb = "on_touch_motion" /\ calls[2].cb = "on_touch_up"
    /\ calls[3].cb = "on_keyboard_key"

(***************************************************************************)
(* C12.  For pointer-absolute-motion, touch-down and touch-motion events,  *)
(* x_transformed(D) and y_transformed(D) return raw * D / S, where raw is  *)
(* the event's position, D the output size asked for and S the window's   *)
(* size at the time of the query, for non-negative raw and D and positive  *)
(* S.                                                                      *)
(***************************************************************************)
C12_TransformScales ==
    IsSome(transformed) =>
        LET q == Unwrap(transformed)
        IN  /\ q.x = (q.raw[1] * q.into[1]) \div q.size[1]
            /\ q.y = (q.raw[2] * q.into[2]) \div q.size[2]

(***************************************************************************)
(* C13.  The auxiliary surface, when it exists, follows the window: after  *)
(* every dispatch call that drained a resize event, with or without a      *)
(* handler registered, the window size and the surface size both equal the *)
(* size of the last resize drained, and the resize events produced no      *)
(* callback.                                                               *)
(***************************************************************************)
C13_SurfaceFollowsWindow ==
    (Returned /\ IsSome(surface) /\ HasResize(batch)) =>
        /\ window = LastResize(batch)
        /\ surface = Some(LastResize(batch))
        /\ IsSome(dispatch_handler) =>
              \A i \in 1..Len(batch) :
                  batch[i].kind = "Resized"
                      => CallsStamped(TimeAtBegin + i - 1) = {}

(***************************************************************************)
(* C14.  Initialization resolves the native handles in a fixed order and   *)
(* never returns half a result: with an X11 connection and an X11 window   *)
(* it takes the X11 pairing and makes no auxiliary surface; otherwise with *)
(* a Wayland display and a Wayland surface it takes the Wayland pairing    *)
(* and makes an auxiliary surface of the window's inner size; otherwise it *)
(* fails with NotSupported; and when building the window, resolving the    *)
(* handles or creating the context fails, an error and neither adapter is  *)
(* returned.                                                               *)
(***************************************************************************)
C14_InitAllOrNothing ==
    LET env == creation.env
        made == creation.result
        x11 == env.x11_xconnection /\ env.xlib_window
        wayland == env.wayland_display /\ env.wayland_client_surface
    IN  /\ made.ok <=> (env.build = "Ok" /\ (x11 \/ wayland) /\ env.context = "Ok")
        /\ (made.ok /\ x11) =>
              /\ Unwrap(made.graphics).native = "X11"
              /\ Unwrap(made.input).surface = None
        /\ (made.ok /\ ~x11) =>
              /\ Unwrap(made.graphics).native = "Wayland"
              /\ Unwrap(made.input).surface = Some(env.inner_size)
        /\ (env.build = "Ok" /\ ~x11 /\ ~wayland) => made.error = "NotSupported"
        /\ made.ok => IsSome(made.graphics) /\ IsSome(made.input) /\ made.error = "none"
        /\ ~made.ok =>
              /\ made.graphics = None /\ made.input = None
              /\ made.error \in {"Window", "NotSupported", "Context"}
              /\ pc = "no_adapter"
        /\ (made.ok /\ drained = 0) => surface = Unwrap(made.input).surface

\* The Wayland pairing is taken where only half of the X11 handles exist, and
\* the adapter it made is in use.
C14_Witness ==
    /\ creation.env.x11_xconnection /\ ~creation.env.xlib_window
    /\ creation.result.ok
    /\ Unwrap(creation.result.graphics).native = "Wayland"
    /\ surface = Some(<<3, 2>>)

(***************************************************************************)
(* C15.  Every keyboard event handled moves the key counter by the step    *)
(* rule (a press adds 1, a release takes 1 unless the counter is 0), the   *)
(* counter is never negative, and exactly one keyboard-key event is        *)
(* emitted, carrying the key code, the state and the counter after the     *)
(* update.                                                                 *)
(***************************************************************************)
C15_KeyStepAndEvent ==
    [][(ClosureStep /\ IsSome(dispatch_handler)
            /\ StepEvent.kind = "KeyboardInput") =>
          /\ key_counter' = (IF StepEvent.state = "Pressed" THEN key_counter + 1
                             ELSE IF key_counter = 0 THEN 0
                             ELSE key_counter - 1)
          /\ key_counter' >= 0
          /\ OnlyAppends
          /\ Len(NewCalls) = 1
          /\ NewCalls[1].cb = "on_keyboard_key"
          /\ NewCalls[1].event.key = StepEvent.key_code
          /\ NewCalls[1].event.state = StepEvent.state
          /\ NewCalls[1].event.count = key_counter']_vars

\* From counter 0, press A, press B, release A delivers the counts 1, 2, 1.
C15_Witness ==
    /\ batch = <<KeyboardInput("Pressed", 30), KeyboardInput("Pressed", 48),
                 KeyboardInput("Released", 30)>>
    /\ Len(calls) = 3
    /\ calls[1].event.count = 1 /\ calls[1].event.key = 30
    /\ calls[2].event.count = 2 /\ calls[2].event.key = 48
    /\ calls[3].event.count = 1 /\ calls[3].event.key = 30
    /\ key_counter = 1

(***************************************************************************)
(* C16.  Every callback carries as timestamp the value the time counter    *)
(* held while its native event was handled, before the increment: the      *)
(* callbacks of one native event share one timestamp, and it is greater    *)
(* than the timestamp of every callback delivered before, in this dispatch *)
(* call or an earlier one, to this handler or one registered before it.    *)
(***************************************************************************)
C16_StampsIncrease ==
    [][(ClosureStep /\ IsSome(dispatch_handler)) =>
          /\ OnlyAppends
          /\ \A j \in 1..Len(NewCalls) :
                /\ NewCalls[j].event.time = time_counter
                /\ NewCalls[j].event.time > last_stamp
          /\ time_counter' > time_counter]_vars

\* The two callbacks of a touch-end share timestamp 1, delivered to the
\* second handler in a later call than the event stamped 0.
C16_Witness ==
    /\ Len(batch) = 1 /\ drained = 2
    /\ Len(calls) = 2
    /\ calls[1].h = 2 /\ calls[2].h = 2
    /\ calls[1].event.time = 1 /\ calls[2].event.time = 1
    /\ last_stamp = 1
    /\ SeatCreated(1) # {}

(***************************************************************************)
(* C17.  With a well-formed native touch stream, whatever the interleaving *)
(* of set_handler, clear_handler and dispatch, every touch-motion,         *)
(* touch-up and touch-cancel a handler receives for a slot comes after a   *)
(* touch-down for that slot delivered to the same handler, with no up or   *)
(* cancel for the slot in between; and the slot of every touch event is    *)
(* the one derived from its native contact id.                             *)
(***************************************************************************)
C17_DownBeforeRest ==
    [][(ClosureStep /\ StepEvent.kind = "Touch") =>
          \A j \in 1..Len(NewCalls) :
              /\ slot(NewCalls[j].event) = SlotOf(StepEvent.id)
              /\ NewCalls[j].cb # "on_touch_down"
                    => <<NewCalls[j].h, slot(NewCalls[j].event)>> \in slots_down]_vars

\* C17 as amended: the touch-down comes first for the contacts whose Started
\* event was drained while the receiving handler was registered; a handler
\* registered later receives the rest of the contact without a touch-down.
C17_DownBeforeRestIfSeenStart ==
    [][(ClosureStep /\ StepEvent.kind = "Touch") =>
          \A j \in 1..Len(NewCalls) :
              /\ slot(NewCalls[j].event) = SlotOf(StepEvent.id)
              /\ (NewCalls[j].cb # "on_touch_down"
                    /\ [id |-> StepEvent.id, under |-> Some(NewCalls[j].h)]
                          \in touching)
                    => <<NewCalls[j].h, slot(NewCalls[j].event)>> \in slots_down]_vars

\* Handler 1 was given the touch-down of contact 7 in one call and is given
\* its motion in the next.
C17_Witness ==
    /\ dispatch_handler = Some(1)
    /\ Len(batch) = 1 /\ drained = 2
    /\ [j \in 1..Len(calls) |-> <<calls[j].h, calls[j].cb, calls[j].event.id>>]
          = <<<<1, "on_touch_motion", 7>>>>
    /\ touching = {[id |-> 7, under |-> Some(1)]}
    /\ slots_down = {<<1, SlotOf(7)>>}

(***************************************************************************)
(* C18.  An unrecognized native event produces no callback, leaves the key *)
(* counter, the window size and the closed outcome alone and never makes   *)
(* dispatch fail, yet it advances the time counter by 1; and the only      *)
(* error dispatch returns is WindowClosed.                                 *)
(***************************************************************************)
C18_UnrecognizedOnlyTicks ==
    [][/\ (ClosureStep /\ StepEvent.kind = "Focused") =>
            /\ calls' = calls
            /\ UNCHANGED <<key_counter, window, surface, closed>>
            /\ time_counter' = time_counter + 1
       /\ (pc = "polling" /\ pc' = "idle") =>
            /\ result' \in {"Ok", "WindowClosed"}
            /\ result' = "WindowClosed" => HasClose(batch)]_vars

(***************************************************************************)
(* C19.  dispatch_new_events always terminates without waiting: it hands   *)
(* each event that was queued when it was called to the closure exactly    *)
(* once, in order, leaves the queue empty and returns; called with an      *)
(* empty queue it returns Ok, makes no callback and leaves the time        *)
(* counter and the key counter as they were.                               *)
(***************************************************************************)
C19_DispatchTerminates ==
    /\ (pc = "polling") ~> (pc = "idle" /\ result # "none")
    /\ [](pc = "polling" => batch \o events_loop = queued_at_call)
    /\ [][/\ (pc = "polling" /\ pc' = "idle") =>
                /\ events_loop = <<>> /\ events_loop' = <<>>
                /\ batch' = queued_at_call
                /\ queued_at_call = <<>> => (result' = "Ok" /\ calls' = <<>>)
          /\ ((pc = "idle" /\ pc' = "polling") \/ (pc = "polling" /\ pc' = "idle"))
                => UNCHANGED <<time_counter, key_counter>>]_vars

\* A call that found two events queued has returned, and a call that found
\* none has returned Ok.
C19_Witness ==
    /\ Returned
    /\ drained = 2
    /\ queued_at_call = <<>> /\ batch = <<>> /\ result = "Ok" /\ calls = <<>>
    /\ events_loop = <<>>
    /\ time_counter = 2 /\ key_counter = 1

(***************************************************************************)
(* C20.  Seat notifications are balanced per handler: a handler gets       *)
(* seat-created exactly once, when it is installed, and seat-destroyed at  *)
(* most once, after its seat-created and only when it is removed or        *)
(* replaced; clear_handler on an empty slot notifies nobody; dispatch      *)
(* neither notifies about the seat nor changes the registered handler; and *)
(* at most one handler is registered at any time.                          *)
(***************************************************************************)
C20_SeatBalanced ==
    [][/\ SeatBalancedNow /\ SeatBalancedNow'
       /\ \A j \in 1..Len(NewSeatCalls) :
            LET c == NewSeatCalls[j]
            IN  /\ c.cb = "on_seat_created" => handler' = Some(c.h)
                /\ c.cb = "on_seat_destroyed" =>
                        handler = Some(c.h) /\ handler' # Some(c.h)
       /\ Len(seat_calls') >= Len(seat_calls)
       /\ SubSeq(seat_calls', 1, Len(seat_calls)) = seat_calls
       /\ (handler = None /\ handler' = None) => seat_calls' = seat_calls
       /\ (pc = "polling" \/ pc' = "polling") =>
            UNCHANGED <<seat_calls, handler>>]_vars

\* One handler replaced, its successor cleared, then a dispatch call.
C20_Witness ==
    /\ Returned
    /\ handler = None
    /\ [j \in 1..Len(seat_calls) |-> <<seat_calls[j].cb, seat_calls[j].h>>]
          = <<<<"on_seat_created", 1>>, <<"on_seat_destroyed", 1>>,
              <<"on_seat_created", 2>>, <<"on_seat_destroyed", 2>>>>

(***************************************************************************)
(* C21.  set_handler and clear_handler leave the time counter and the key  *)
(* counter as they are: neither is reset when the handler is replaced or   *)
(* removed, so the first keyboard-key event of a call carries a count      *)
(* derived from the key counter as earlier calls, under whichever handler, *)
(* left it.                                                                *)
(***************************************************************************)
C21_HandlerOpsKeepCounters ==
    [][/\ (handler' # handler \/ seat_calls' # seat_calls \/ handlers_made' # handlers_made)
            => UNCHANGED <<time_counter, key_counter>>
       /\ (pc = "idle" /\ pc' = "idle") => UNCHANGED <<time_counter, key_counter>>
       /\ (ClosureStep /\ IsSome(dispatch_handler) /\ calls = <<>>
                /\ StepEvent.kind = "KeyboardInput") =>
            /\ Len(calls') = 1
            /\ calls'[1].event.count
                  = (IF StepEvent.state = "Pressed" THEN key_counter + 1
                     ELSE Max0(key_counter - 1))]_vars

\* Handler 1 was given two presses; it has just been replaced by handler 2
\* and both counters still stand at 2.
C21_Witness ==
    /\ Returned
    /\ dispatch_handler = Some(1) /\ handler = Some(2)
    /\ Len(calls) = 2 /\ calls[2].h = 1 /\ calls[2].event.count = 2
    /\ key_counter = 2 /\ time_counter = 2

(***************************************************************************)
(* C22.  A dispatch call made while no handler is registered makes no      *)
(* callback and leaves the key counter alone at every key press and        *)
(* release of its batch; the events it drained are gone: neither a later   *)
(* registration nor a later call delivers them to a handler.               *)
(***************************************************************************)
C22_NoHandlerNoEffect ==
    [][/\ (ClosureStep /\ dispatch_handler = None) =>
            /\ calls = <<>> /\ calls' = <<>>
            /\ key_counter' = key_counter
       /\ (ClosureStep /\ IsSome(dispatch_handler)) =>
            /\ OnlyAppends
            /\ Len(NewCalls) = CallsOwed(StepEvent)
            /\ \A j \in 1..Len(NewCalls) :
                  /\ NewCalls[j].event.key = StepEvent.key_code
                  /\ NewCalls[j].event.state = StepEvent.state
       /\ (pc = "idle" /\ pc' = "polling") => calls' = <<>>
       /\ (pc' = "idle") => calls' = calls]_vars

\* A press was drained with no handler; handler 1, registered since, is
\* given the next press only, with count 1.
C22_Witness ==
    /\ dispatch_handler = Some(1)
    /\ presses = 2 /\ lost_presses = 1
    /\ Len(batch) = 1
    /\ Len(calls) = 1 /\ calls[1].event.count = 1 /\ calls[1].event.state = "Pressed"
    /\ key_counter = 1

(***************************************************************************)
(* C23.  The time counter and the key counter never go down by wrapping:   *)
(* also when a `+= 1` is applied at the maximum value, the time counter    *)
(* goes strictly up with every event handled and the key counter takes its *)
(* step-rule value.                                                        *)
(***************************************************************************)
C23_CountersNeverWrap ==
    [][/\ time_counter' >= time_counter
       /\ (ClosureStep /\ IsSome(dispatch_handler)) =>
            /\ time_counter' > time_counter
            /\ StepEvent.kind = "KeyboardInput" =>
                  key_counter' = (IF StepEvent.state = "Pressed"
                                  THEN key_counter + 1
                                  ELSE Max0(key_counter - 1))]_vars

====
